---- MODULE Spec2Model ----
(***************************************************************************)
(* The demux-and-decode pipeline of bcp-backend, in its three revisions:   *)
(*   "main"   main.py          process_binary_to_csv                       *)
(*   "train"  train.py         demux_binary_file, decode_sensor_binary,    *)
(*                             process_binary_to_csv                       *)
(*   "test"   test_pipeline.py run_test                                    *)
(* One run of the pipeline on one capture file. The capture file is a      *)
(* sequence of bytes; the logger that wrote it is kept as the history      *)
(* variables sent and tail, which the pipeline never reads.                *)
(***************************************************************************)
EXTENDS Integers, Sequences, FiniteSets, TLC

\* ------------------------------------------------------------- bounds
\* complete packets in a capture file
MaxPackets == 2
\* payload bytes of one packet
MaxPayload == 2

\* ---------------------------------------------------------- constants
HEADER_SIZE == 8
DEMUX_HEADER_SIZE == 8
DECODER_TIMEOUT_SEC == 60
MAIN_TIMEOUT == 60
TEST_TIMEOUT == 30

Impls == {"main", "train", "test"}
\* connection handles the logger uses (one of them needs both header bytes)
Handles == {1, 258}
\* seconds a decoder process would need if nobody stopped it
Durations == {1, 61}
ExitCodes == {0, 1}
\* what a decoder process does to its output file before it ends: the size of
\* the file it writes, or -1 when it writes none
Effects == {-1, 0, 64}

VARIABLES
    impl,            \* the revision that runs
    sent,            \* history: the complete packets the logger wrote
    tail,            \* history: what the logger wrote after them
    input,           \* the bytes of the capture file
    decoder_exists,  \* os.path.exists(DECODER_EXECUTABLE)
    pc,              \* position of the run
    f_pos,           \* f_in's position
    sensor_files,    \* the dict, in insertion order
    packet_count,    \* packets written (train.py, test_pipeline.py)
    binFile,         \* sink files on disk: conn_handle -> bytes
    csvFile,         \* artifact files on disk: conn_handle -> size
    decode_idx,      \* position of the decode loop in sensor_files
    running,         \* conn_handles whose decoder process is alive
    invoked,         \* history: the subprocess.run calls made
    generated_csvs,  \* the list of artifacts (decoded_files in run_test)
    failed_sensors,  \* train.py's list of failed handles
    log,             \* what was logged or printed
    result,          \* how the run ended
    fault,           \* the sink operation the file system refuses, if any
    opens,           \* history: the open(bin_path, 'wb') calls of this run, each
                     \* with the offset of the header that caused it
    run,             \* 1, or 2 when the pipeline runs again in the same directory
    prev_bin,        \* history: the sink files the first run left
    prev_sensors,    \* history: the handles of the first run's sensor_files
    wrote,           \* history: handles whose decoder wrote its output in this run
    decoder_mode,    \* "executable", or not: "fixable" (os.chmod works) or "locked"
    ext,             \* the extension of file_path
    threads          \* the requests a threaded server handles at the same time

vars == <<impl, sent, tail, input, decoder_exists, pc, f_pos, sensor_files,
          packet_count, binFile, csvFile, decode_idx, running, invoked,
          generated_csvs, failed_sensors, log, result, fault, opens, run,
          prev_bin, prev_sensors, wrote, decoder_mode, ext, threads>>

\* ------------------------------------------------------------ helpers
Min(a, b) == IF a < b THEN a ELSE b

RECURSIVE Concat(_)
Concat(ss) == IF ss = <<>> THEN <<>> ELSE Head(ss) \o Concat(Tail(ss))

\* struct.Struct('<HIH').pack: little-endian uint16, uint32, uint16
Pack(h, ts, n) ==
    << h % 256, (h \div 256) % 256,
       ts % 256, (ts \div 256) % 256, (ts \div 65536) % 256, (ts \div 16777216) % 256,
       n % 256, (n \div 256) % 256 >>

\* the header read with the format '<IHH': the first field takes in two
\* bytes of the timestamp
UnpackIHH(hb) ==
    [ conn_handle  |-> hb[1] + 256 * hb[2] + 65536 * hb[3] + 16777216 * hb[4],
      timestamp_ms |-> hb[5] + 256 * hb[6],
      data_size    |-> hb[7] + 256 * hb[8] ]

\* header_struct.unpack(header_bytes)
Unpack(hb) ==
    [ conn_handle  |-> hb[1] + 256 * hb[2],
      timestamp_ms |-> hb[3] + 256 * hb[4] + 65536 * hb[5] + 16777216 * hb[6],
      data_size    |-> hb[7] + 256 * hb[8] ]

\* a read that skips one byte before it starts
ReadSkipping(data, pos, n) == SubSeq(data, pos + 2, Min(pos + 1 + n, Len(data)))

\* f_in.read(n) at position pos: at most n bytes, fewer at the end of the file
Read(data, pos, n) == SubSeq(data, pos + 1, Min(pos + n, Len(data)))

HeaderSize(i) == IF i = "train" THEN DEMUX_HEADER_SIZE ELSE HEADER_SIZE

Timeout(i) ==
    IF i = "train" THEN DECODER_TIMEOUT_SEC
    ELSE IF i = "main" THEN MAIN_TIMEOUT ELSE TEST_TIMEOUT

\* f"{base_name}_sensor_{conn_handle}.bin" and ....csv
BinPath(h) == <<"sensor", h, "bin">>
CsvPath(h) == <<"sensor", h, "csv">>

\* a membership test that never finds the handle
InSensorFilesNever(sf, h) == FALSE

\* conn_handle in sensor_files
InSensorFiles(sf, h) == \E k \in 1..Len(sf) : sf[k].conn_handle = h

IndexOf(sf, h) == CHOOSE k \in 1..Len(sf) : sf[k].conn_handle = h
\* a handler that forgets to close the sinks
CloseNone(sf) == sf

\* a close loop that stops before the last sink
CloseAllButLast(sf) ==
    [k \in 1..Len(sf) |-> IF k < Len(sf) THEN [sf[k] EXCEPT !.open = FALSE] ELSE sf[k]]

\* for s in sensor_files.values(): s['file'].close()
CloseAll(sf) == [k \in 1..Len(sf) |-> [sf[k] EXCEPT !.open = FALSE]]

\* f[h] := v, creating the file when it is not there
Store(f, h, v) == [x \in DOMAIN f \cup {h} |-> IF x = h THEN v ELSE f[x]]

Pending == [kind |-> "pending", error |-> "", msg |-> "", offset |-> -1,
            value |-> <<>>, failed |-> <<>>]

Raised(e, m, off, fl) == [kind |-> "raised", error |-> e, msg |-> m, offset |-> off,
                          value |-> <<>>, failed |-> fl]

Returned(v, m) == [kind |-> "returned", error |-> "", msg |-> m, offset |-> -1,
                   value |-> v, failed |-> <<>>]

\* --------------------------------------------------- the capture file
\* payload bytes of the k-th packet of a file: every byte of a file is distinct
Label(k, n) == [j \in 1..n |-> 16 * k + j]

Stamp(k) == 66000 * k + 258

SizeSeqs(n) == [1..n -> 0..MaxPayload]
HandleSeqs(n) == [1..n -> Handles]

MkSent(hs, zs) ==
    [k \in 1..Len(hs) |-> [conn_handle |-> hs[k], timestamp_ms |-> Stamp(k),
                           payload |-> Label(k, zs[k])]]

\* what may follow the last complete packet: nothing, part of a header, or a
\* header and fewer payload bytes than it announces
Tails ==
    {[kind |-> "none", conn_handle |-> 0, data_size |-> 0, avail |-> 0]}
    \cup {[kind |-> "header", conn_handle |-> 1, data_size |-> 0, avail |-> n] :
             n \in {1, HEADER_SIZE - 1}}
    \cup {[kind |-> "payload", conn_handle |-> h, data_size |-> n, avail |-> a] :
             h \in Handles, n \in 1..MaxPayload, a \in 0..MaxPayload - 1}

TailOk(t) == t.kind = "payload" => t.avail < t.data_size

TailBytes(t, k) ==
    IF t.kind = "none" THEN <<>>
    ELSE IF t.kind = "header"
         THEN SubSeq(Pack(t.conn_handle, Stamp(k), 1), 1, t.avail)
         ELSE Pack(t.conn_handle, Stamp(k), t.data_size) \o Label(k, t.avail)

PacketBytes(p) == Pack(p.conn_handle, p.timestamp_ms, Len(p.payload)) \o p.payload

FileBytes(s, t) ==
    Concat([k \in 1..Len(s) |-> PacketBytes(s[k])]) \o TailBytes(t, Len(s) + 1)

\* the file system lets every open and every write of a sink through
NoFault == [op |-> "none", conn_handle |-> 0, room |-> 0]

\* a capture file of at most maxn complete packets, and the decoder's presence
Capture(maxn) ==
    /\ impl \in Impls
    /\ \E n \in 0..maxn : \E hs \in HandleSeqs(n) : \E zs \in SizeSeqs(n) :
           sent = MkSent(hs, zs)
    /\ tail \in {t \in Tails : TailOk(t)}
    /\ input = FileBytes(sent, tail)
    /\ decoder_exists \in BOOLEAN

\* the first run in an empty directory
FirstRun ==
    /\ run = 1
    /\ prev_bin = <<>>
    /\ prev_sensors = <<>>
    /\ binFile = <<>>
    /\ csvFile = <<>>

\* the extensions a job may be handed
Exts == {"bin", "BIN", "csv", "CSV", "txt"}

\* str.lower() of an extension
Lower(x) == IF x = "BIN" THEN "bin" ELSE IF x = "CSV" THEN "csv" ELSE x

\* the path of the file the job is handed
FilePath(x) == <<"input", x>>

\* a test that lets every name through
EndsWithAlways(x, suffix) == TRUE

\* file_path.lower().endswith('.' + suffix)
EndsWith(x, suffix) == Lower(x) = suffix

\* the permission bits of the decoder: executable; not executable, and
\* os.chmod is allowed ("fixable") or refused ("locked"); "made_executable"
\* after an os.chmod(..., 0o755) of the job
Modes == {"executable", "fixable", "locked", "made_executable"}

\* os.access(DECODER_EXECUTABLE, os.X_OK)
Access(m) == m \in {"executable", "made_executable"}

\* os.chmod(DECODER_EXECUTABLE, 0o755) raises PermissionError
ChmodRefused(m) == m = "locked"

\* the permission bits after the test of os.access and the os.chmod
AfterChmod(m) == IF Access(m) \/ ChmodRefused(m) THEN m ELSE "made_executable"

\* the decoder is executable, the file is named .bin, and no other request
\* is being handled
Plain ==
    /\ decoder_mode = "executable"
    /\ ext = "bin"
    /\ threads = <<>>

\* the locals of a run when it is entered
Fresh ==
    /\ pc = "start"
    /\ f_pos = 0
    /\ sensor_files = <<>>
    /\ packet_count = 0
    /\ decode_idx = 1
    /\ running = {}
    /\ invoked = <<>>
    /\ generated_csvs = <<>>
    /\ failed_sensors = <<>>
    /\ log = {}
    /\ result = Pending
    /\ opens = <<>>
    /\ wrote = {}

Init ==
    /\ Capture(MaxPackets)
    /\ FirstRun
    /\ Plain
    /\ Fresh
    /\ fault = NoFault
\* the existence test left out
CheckDecoderSkipped == TRUE

\* ------------------------------------------------------------ actions
\* os.path.exists(DECODER_EXECUTABLE)
CheckDecoder == decoder_exists

\* run_test's checks before the demux loop; the other two open the file
Begin ==
    /\ pc = "start"
    /\ IF impl = "main" /\ ~EndsWith(ext, "bin")
       THEN \* return [file_path]
            /\ pc' = "done"
            /\ result' = Returned(<<FilePath(ext)>>, "passthrough")
            /\ UNCHANGED <<log, decoder_mode>>
       ELSE IF impl = "train" /\ EndsWith(ext, "csv")
       THEN \* File already CSV: return [file_path]
            /\ pc' = "done"
            /\ result' = Returned(<<FilePath(ext)>>, "passthrough")
            /\ log' = log \cup {<<"already_csv", 0>>}
            /\ UNCHANGED decoder_mode
       ELSE IF impl = "train" /\ ~EndsWith(ext, "bin")
       THEN \* raise ValueError(f"Unsupported file format: ...")
            /\ pc' = "done"
            /\ result' = Raised("ValueError", "unsupported", -1, <<>>)
            /\ UNCHANGED <<log, decoder_mode>>
       ELSE IF impl = "test" /\ ~CheckDecoder
       THEN /\ pc' = "done"
            /\ result' = Returned(<<>>, "decoder_missing")
            /\ log' = log \cup {<<"decoder_missing", 0>>}
            /\ UNCHANGED decoder_mode
       ELSE IF impl = "test" /\ ~Access(decoder_mode) /\ ChmodRefused(decoder_mode)
       THEN \* os.chmod raises, outside every try
            /\ pc' = "done"
            /\ result' = Raised("PermissionError", "chmod", -1, <<>>)
            /\ UNCHANGED <<log, decoder_mode>>
       ELSE /\ pc' = "demux"
            /\ decoder_mode' = IF impl = "test" THEN AfterChmod(decoder_mode)
                               ELSE decoder_mode
            /\ log' = log \cup {<<"demuxing", 0>>}
                       \cup (IF impl = "test" /\ ~Access(decoder_mode)
                             THEN {<<"made_executable", 0>>} ELSE {})
            /\ UNCHANGED result
    /\ UNCHANGED <<fault, opens, run, prev_bin, prev_sensors, threads>>
    /\ UNCHANGED <<wrote, ext>>
    /\ UNCHANGED <<impl, sent, tail, input, decoder_exists, f_pos, sensor_files,
                   packet_count, binFile, csvFile, decode_idx, running, invoked,
                   generated_csvs, failed_sensors>>
\* a dict that puts a new handle first
OpenSinkFirst(sf, h) ==
    IF InSensorFiles(sf, h) THEN sf
    ELSE <<[conn_handle |-> h, open |-> TRUE, packet_count |-> 0]>> \o sf

\* sensor_files[conn_handle] = {'file': open(bin_path, 'wb'), ...}
OpenSink(sf, h) ==
    IF InSensorFiles(sf, h) THEN sf
    ELSE Append(sf, [conn_handle |-> h, open |-> TRUE, packet_count |-> 0])

\* only the global counter is kept
CountPacketGlobalOnly(i, sf, h) == sf

\* sensor_files[conn_handle]['packet_count'] += 1 (train.py, test_pipeline.py)
CountPacket(i, sf, h) ==
    IF i = "main" THEN sf
    ELSE [sf EXCEPT ![IndexOf(sf, h)].packet_count = @ + 1]

\* open(bin_path, 'ab'): a file that is there keeps its bytes
OpenFileAppend(sf, f, h) ==
    IF InSensorFiles(sf, h) \/ h \in DOMAIN f THEN f ELSE Store(f, h, <<>>)

\* open(bin_path, 'wb') truncates; it happens only for a handle not in the dict
OpenFile(sf, f, h) == IF InSensorFiles(sf, h) THEN f ELSE Store(f, h, <<>>)
\* a write that does not append: the new payload lands before the old bytes
WritePayloadAtStart(f, h, payload) == Store(f, h, payload \o f[h])

\* file.write(payload)
WritePayload(f, h, payload) == Store(f, h, f[h] \o payload)
\* the offset taken before the payload is read
TruncationOffsetBeforeRead(pos, payload) == pos

\* f_in.tell() after the short read of the payload that began at pos
TruncationOffset(pos, payload) == pos + Len(payload)

\* the truncation test that also rejects a complete payload
IsShortOrEqual(payload, data_size) == Len(payload) <= data_size
\* the truncation test left out
IsShortNever(payload, data_size) == FALSE

\* len(payload) < data_size
IsShort(payload, data_size) == Len(payload) < data_size

\* open(bin_path, 'wb') raises OSError
OpenFails(ft, sf, h) ==
    ft.op = "open" /\ ft.conn_handle = h /\ ~InSensorFiles(sf, h)

\* file.write(payload) raises OSError: the sink may not grow beyond ft.room
WriteFails(ft, f, h, payload) ==
    ft.op = "write" /\ ft.conn_handle = h /\ Len(f[h]) + Len(payload) > ft.room

\* a handler that swallows the exception and returns
DemuxErrorSwallowed(i, e, m, off) == Returned(<<>>, "demux_error")

\* f_in.read raises OSError: the read that starts at offset ft.room
ReadFails(ft, pos) == ft.op = "read" /\ ft.room = pos

\* how an exception of the loop body leaves the demultiplexer: main.py
\* re-raises it, train.py raises RuntimeError("Demuxing error: ..."),
\* run_test prints it and returns
DemuxError(i, e, m, off) ==
    IF i = "main" THEN Raised(e, m, off, <<>>)
    ELSE IF i = "train" THEN Raised("RuntimeError", m, off, <<>>)
    ELSE Returned(<<>>, "demux_error")

\* one iteration of the while True loop
DemuxStep ==
    /\ pc = "demux"
    /\ LET header_bytes == Read(input, f_pos, HeaderSize(impl))
           pos1 == f_pos + Len(header_bytes)
       IN
       IF ReadFails(fault, f_pos)
       THEN \* the header read raises: except Exception
            /\ sensor_files' = CloseAll(sensor_files)
            /\ log' = log \cup {<<"demux_failed", 0>>, <<"read_error", 0>>}
            /\ pc' = "done"
            /\ result' = DemuxError(impl, "OSError", "read_io", -1)
            /\ UNCHANGED <<f_pos, packet_count, binFile, opens>>
       ELSE IF Len(header_bytes) < HeaderSize(impl)
       THEN \* break: the end of the stream
            /\ f_pos' = pos1
            /\ pc' = "closing"
            /\ UNCHANGED <<sensor_files, packet_count, binFile, log, result, opens>>
       ELSE
       LET hd == Unpack(header_bytes)
           conn_handle == hd.conn_handle
           \* main.py and train.py open the sink before the payload is read,
           \* test_pipeline.py after the truncation test
           early == impl \in {"main", "train"}
           new == ~InSensorFiles(sensor_files, conn_handle)
           open_early == early /\ OpenFails(fault, sensor_files, conn_handle)
           payload == Read(input, pos1, hd.data_size)
           pos2 == pos1 + Len(payload)
           short == IsShort(payload, hd.data_size)
           opening == new /\ (early \/ ~short)
           open_err == opening /\ OpenFails(fault, sensor_files, conn_handle)
           sf1 == IF opening /\ ~open_err THEN OpenSink(sensor_files, conn_handle)
                  ELSE sensor_files
           bf1 == IF opening /\ ~open_err
                  THEN OpenFile(sensor_files, binFile, conn_handle)
                  ELSE binFile
           lg1 == IF opening /\ ~open_err
                  THEN log \cup {<<"detected", conn_handle>>} ELSE log
           op1 == IF opening /\ ~open_err
                  THEN Append(opens, [conn_handle |-> conn_handle, at |-> f_pos])
                  ELSE opens
           write_err == ~short /\ ~open_err /\ WriteFails(fault, bf1, conn_handle, payload)
           \* what main.py and train.py have opened when they read the payload
           first == early /\ new
       IN
       IF ~open_early /\ ReadFails(fault, pos1)
       THEN \* the payload read raises: except Exception
            /\ f_pos' = pos1
            /\ sensor_files' = CloseAll(IF first THEN OpenSink(sensor_files, conn_handle)
                                        ELSE sensor_files)
            /\ binFile' = IF first THEN OpenFile(sensor_files, binFile, conn_handle)
                          ELSE binFile
            /\ opens' = IF first
                        THEN Append(opens, [conn_handle |-> conn_handle, at |-> f_pos])
                        ELSE opens
            /\ log' = (IF first THEN log \cup {<<"detected", conn_handle>>} ELSE log)
                       \cup {<<"demux_failed", 0>>, <<"read_error", 0>>}
            /\ pc' = "done"
            /\ result' = DemuxError(impl, "OSError", "read_io", -1)
            /\ UNCHANGED packet_count
       ELSE IF open_err \/ write_err
       THEN \* except Exception: the sinks are closed, the demultiplexer is left
            /\ f_pos' = IF open_early THEN pos1 ELSE pos2
            /\ sensor_files' = CloseAll(sf1)
            /\ binFile' = bf1
            /\ opens' = op1
            /\ log' = lg1 \cup {<<"demux_failed", 0>>, <<"io_error", conn_handle>>}
            /\ pc' = "done"
            /\ result' = DemuxError(impl, "OSError", "sink_io", -1)
            /\ UNCHANGED packet_count
       ELSE
       /\ f_pos' = pos2
       /\ opens' = op1
       /\ IF short
          THEN IF impl = "train"
               THEN \* raise RuntimeError(... offset f_in.tell()); the handler
                    \* closes the sinks and raises RuntimeError("Demuxing error")
                    /\ sensor_files' = CloseAll(sf1)
                    /\ binFile' = bf1
                    /\ log' = lg1 \cup {<<"truncated", conn_handle>>,
                                        <<"demux_failed", 0>>}
                    /\ pc' = "done"
                    /\ result' = Raised("RuntimeError", "truncated",
                                        TruncationOffset(pos1, payload), <<>>)
                    /\ UNCHANGED packet_count
               ELSE \* warning, break
                    /\ sensor_files' = sf1
                    /\ binFile' = bf1
                    /\ log' = lg1 \cup {<<"truncated", conn_handle>>}
                    /\ pc' = "closing"
                    /\ UNCHANGED <<packet_count, result>>
          ELSE /\ sensor_files' = CountPacket(impl, sf1, conn_handle)
               /\ binFile' = WritePayload(bf1, conn_handle, payload)
               /\ packet_count' = IF impl = "main" THEN packet_count
                                  ELSE packet_count + 1
               /\ log' = lg1
               /\ UNCHANGED <<pc, result>>
    /\ UNCHANGED <<fault, run, prev_bin, prev_sensors, threads>>
    /\ UNCHANGED <<wrote, decoder_mode, ext>>
    /\ UNCHANGED <<impl, sent, tail, input, decoder_exists, csvFile, decode_idx,
                   running, invoked, generated_csvs, failed_sensors>>

\* the test for an empty dict left out
NoSensorsNever(sf) == FALSE

\* not sensor_files
NoSensors(sf) == sf = <<>>

\* after the loop: the sinks are closed, and the checks made before decoding
DemuxFinish ==
    /\ pc = "closing"
    /\ sensor_files' = CloseAll(sensor_files)
    /\ IF impl = "main" /\ ~CheckDecoder
       THEN \* raise FileNotFoundError(f"Decoder not found: ...")
            /\ pc' = "done"
            /\ result' = Raised("FileNotFoundError", "decoder_missing", -1, <<>>)
            /\ UNCHANGED <<log, decoder_mode>>
       ELSE IF impl = "main" /\ ~Access(decoder_mode) /\ ChmodRefused(decoder_mode)
       THEN \* os.chmod raises, outside every try
            /\ pc' = "done"
            /\ result' = Raised("PermissionError", "chmod", -1, <<>>)
            /\ UNCHANGED <<log, decoder_mode>>
       ELSE IF impl = "train" /\ NoSensors(sensor_files)
       THEN \* raise RuntimeError("No sensors detected in binary file")
            /\ pc' = "done"
            /\ result' = Raised("RuntimeError", "no_sensors", -1, <<>>)
            /\ UNCHANGED <<log, decoder_mode>>
       ELSE /\ pc' = "decode"
            /\ decoder_mode' = IF impl = "main" THEN AfterChmod(decoder_mode)
                               ELSE decoder_mode
            /\ log' = log \cup {<<"demuxed", 0>>}
            /\ UNCHANGED result
    /\ UNCHANGED <<fault, opens, run, prev_bin, prev_sensors, threads>>
    /\ UNCHANGED <<wrote, ext>>
    /\ UNCHANGED <<impl, sent, tail, input, decoder_exists, f_pos, packet_count,
                   binFile, csvFile, decode_idx, running, invoked, generated_csvs,
                   failed_sensors>>

\* a decode loop that hands the first sink to every invocation
CurrentFirst == sensor_files[1].conn_handle

\* the sensor the decode loop is at
Current == sensor_files[decode_idx].conn_handle

\* every decoder is given the same output path
ArgvSharedOutput(h) == <<"decoder", BinPath(h), CsvPath(0)>>

\* [DECODER_EXECUTABLE, bin_in, csv_out]
Argv(h) == <<"decoder", BinPath(h), CsvPath(h)>>

Invocation(h, st, secs) == [conn_handle |-> h, argv |-> Argv(h), status |-> st,
                            elapsed |-> secs]

\* subprocess.run, first half: the process is started, or starting it raises OSError
DecodeLaunch ==
    /\ pc = "decode"
    /\ decode_idx <= Len(sensor_files)
    /\ IF impl = "train" /\ ~CheckDecoder
       THEN \* decode_sensor_binary raises FileNotFoundError, nobody catches it
            /\ pc' = "done"
            /\ result' = Raised("FileNotFoundError", "decoder_missing", -1, <<>>)
            /\ UNCHANGED <<decode_idx, running, invoked, failed_sensors, log>>
            /\ UNCHANGED decoder_mode
       ELSE IF impl = "train" /\ ~Access(decoder_mode) /\ ChmodRefused(decoder_mode)
       THEN \* decode_sensor_binary: os.chmod raises before the try
            /\ pc' = "done"
            /\ result' = Raised("PermissionError", "chmod", -1, <<>>)
            /\ log' = log \cup {<<"decoding", Current>>}
            /\ UNCHANGED <<decode_idx, running, invoked, failed_sensors>>
            /\ UNCHANGED decoder_mode
       ELSE \E started \in BOOLEAN :
            LET fixed == IF impl = "train" /\ ~Access(decoder_mode)
                         THEN {<<"made_executable", 0>>} ELSE {}
            IN
            /\ decoder_mode' = IF impl = "train" THEN AfterChmod(decoder_mode)
                               ELSE decoder_mode
            /\ IF started
               THEN /\ running' = running \cup {Current}
                    /\ invoked' = Append(invoked, Invocation(Current, "running", 0))
                    /\ pc' = "wait"
                    /\ log' = log \cup {<<"decoding", Current>>} \cup fixed
                    /\ UNCHANGED <<decode_idx, failed_sensors, result>>
               ELSE /\ invoked' = Append(invoked, Invocation(Current, "oserror", 0))
                    /\ UNCHANGED running
                    /\ IF impl = "main"
                       THEN \* only subprocess.TimeoutExpired is caught
                            /\ pc' = "done"
                            /\ result' = Raised("OSError", "launch", -1, <<>>)
                            /\ log' = log \cup {<<"decoding", Current>>}
                            /\ UNCHANGED <<decode_idx, failed_sensors>>
                       ELSE \* except Exception
                            /\ decode_idx' = decode_idx + 1
                            /\ failed_sensors' = IF impl = "train"
                                                 THEN Append(failed_sensors, Current)
                                                 ELSE failed_sensors
                            /\ log' = log \cup {<<"decoding", Current>>,
                                                <<"decoder_exception", Current>>}
                                            \cup fixed
                            /\ UNCHANGED <<pc, result>>
    /\ UNCHANGED <<fault, opens, run, prev_bin, prev_sensors, threads>>
    /\ UNCHANGED <<wrote, ext>>
    /\ UNCHANGED <<impl, sent, tail, input, decoder_exists, f_pos, sensor_files,
                   packet_count, binFile, csvFile, generated_csvs>>

\* what the decoder process leaves at csv_out
WriteCsv(f, h, eff) == IF eff < 0 THEN f ELSE Store(f, h, eff)
\* subprocess.run without timeout=
TimedOutNever(i, d) == FALSE

\* subprocess.run(..., timeout=t): the child that has not ended after t seconds
\* is killed and waited for, and TimeoutExpired is raised
TimedOut(i, d) == d > Timeout(i)

\* a subprocess.run that returns without reaping its child
AfterRunLeaves(r, h) == r

\* the processes alive when subprocess.run has returned or raised
AfterRun(r, h) == r \ {h}
\* the exit code not looked at
DecodeOkAnyExit(rc, f, h) == h \in DOMAIN f /\ f[h] > 0

\* result.returncode == 0 and os.path.exists(csv_out) and os.path.getsize(csv_out) > 0
DecodeOk(rc, f, h) == rc = 0 /\ h \in DOMAIN f /\ f[h] > 0
\* a timeout reported as any other failure
FailureTagNoTimeout(timed_out, rc) == IF rc # 0 THEN "nonzero_exit" ELSE "empty_csv"

\* the tag logged for a decode that did not produce an artifact
FailureTag(timed_out, rc) ==
    IF timed_out THEN "timeout" ELSE IF rc # 0 THEN "nonzero_exit" ELSE "empty_csv"

\* subprocess.run, second half, and the rest of the loop body
DecodeWait ==
    /\ pc = "wait"
    /\ \E d \in Durations, rc \in ExitCodes, eff \in Effects :
       LET h == Current
           timed_out == TimedOut(impl, d)
           csv1 == WriteCsv(csvFile, h, eff)
           ok == ~timed_out /\ DecodeOk(rc, csv1, h)
           st == IF timed_out THEN "timeout" ELSE IF rc = 0 THEN "exit0" ELSE "nonzero"
       IN
       /\ csvFile' = csv1
       /\ wrote' = IF eff < 0 THEN wrote ELSE wrote \cup {h}
       /\ running' = AfterRun(running, h)
       /\ invoked' = [invoked EXCEPT ![Len(invoked)] =
                          Invocation(h, st, IF timed_out THEN Timeout(impl) ELSE d)]
       /\ generated_csvs' = IF ok THEN Append(generated_csvs, CsvPath(h))
                            ELSE generated_csvs
       /\ failed_sensors' = IF ~ok /\ impl = "train" THEN Append(failed_sensors, h)
                            ELSE failed_sensors
       /\ log' = log \cup {IF ok THEN <<"decoded", h>>
                           ELSE <<FailureTag(timed_out, rc), h>>}
    /\ decode_idx' = decode_idx + 1
    /\ pc' = "decode"
    /\ UNCHANGED <<fault, opens, run, prev_bin, prev_sensors, threads>>
    /\ UNCHANGED <<decoder_mode, ext>>
    /\ UNCHANGED <<impl, sent, tail, input, decoder_exists, f_pos, sensor_files,
                   packet_count, binFile, result>>
\* train.py with main.py's policy: the artifacts there are get returned
OutcomeLenient(i, csvs, failed) ==
    IF csvs = <<>> THEN Raised("RuntimeError", "no_csvs", -1, <<>>)
    ELSE Returned(csvs, IF i = "test" THEN "plotted" ELSE "")

\* an aggregation that returns the list without looking at it
OutcomeUnchecked(i, csvs, failed) == Returned(csvs, "")

\* what process_binary_to_csv returns or raises after the decode loop
Outcome(i, csvs, failed) ==
    IF i = "main"
    THEN IF csvs = <<>> THEN Raised("RuntimeError", "no_csvs", -1, <<>>)
         ELSE Returned(csvs, "")
    ELSE IF i = "train"
    THEN IF csvs = <<>> THEN Raised("RuntimeError", "all_failed", -1, failed)
         ELSE IF failed # <<>> THEN Raised("RuntimeError", "some_failed", -1, failed)
         ELSE Returned(csvs, "")
    ELSE IF csvs = <<>> THEN Returned(<<>>, "test_failed")
         ELSE Returned(csvs, "plotted")

Aggregate ==
    /\ pc = "decode"
    /\ decode_idx > Len(sensor_files)
    /\ result' = Outcome(impl, generated_csvs, failed_sensors)
    /\ pc' = "done"
    /\ UNCHANGED <<fault, opens, run, prev_bin, prev_sensors, threads>>
    /\ UNCHANGED <<wrote, decoder_mode, ext>>
    /\ UNCHANGED <<impl, sent, tail, input, decoder_exists, f_pos, sensor_files,
                   packet_count, binFile, csvFile, decode_idx, running, invoked,
                   generated_csvs, failed_sensors, log>>

Next == Begin \/ DemuxStep \/ DemuxFinish \/ DecodeLaunch \/ DecodeWait \/ Aggregate

Spec == Init /\ [][Next]_vars

\* the interpreter keeps executing the job, and subprocess.run returns or
\* raises once its timeout has passed: a step that can be taken is taken
InitFair ==
    /\ Capture(MaxPackets - 1)
    /\ FirstRun
    /\ Plain
    /\ Fresh
    /\ fault = NoFault

SpecFair == InitFair /\ [][Next]_vars /\ WF_vars(Next)

\* a job handed a file of any name, with a decoder of any permission bits;
\* run_test reads INPUT_FILE = 'R001.BIN'
InitEnv ==
    /\ Capture(MaxPackets - 1)
    /\ FirstRun
    /\ decoder_mode \in (IF decoder_exists THEN Modes \ {"made_executable"}
                          ELSE {"executable"})
    /\ ext \in (IF impl = "test" THEN {"BIN"} ELSE Exts)
    /\ threads = <<>>
    /\ Fresh
    /\ fault = NoFault

SpecEnv == InitEnv /\ [][Next]_vars

\* ------------------------------------------------------ a second run
\* what is added to the timestamp_ms of the k-th header of the second file,
\* divided by k
StampShifts == {0, 4097}

\* the packets of s with other timestamps: the k-th one is d * k later
Restamp(s, d) == [k \in 1..Len(s) |-> [s[k] EXCEPT !.timestamp_ms = @ + d * k]]

\* TailBytes with the timestamp ts in the header
TailBytesAt(t, k, ts) ==
    IF t.kind = "none" THEN <<>>
    ELSE IF t.kind = "header"
         THEN SubSeq(Pack(t.conn_handle, ts, 1), 1, t.avail)
         ELSE Pack(t.conn_handle, ts, t.data_size) \o Label(k, t.avail)

\* the handles of the dict, in its order
HandlesOf(sf) == [k \in 1..Len(sf) |-> sf[k].conn_handle]

\* the pipeline is called again, in the same directory, on a file of the same
\* name: the same file, or one that differs from it in timestamps only
Rerun ==
    /\ pc = "done"
    /\ run = 1
    /\ run' = 2
    /\ prev_bin' = binFile
    /\ prev_sensors' = HandlesOf(sensor_files)
    /\ \E d \in StampShifts :
          /\ sent' = Restamp(sent, d)
          /\ input' = Concat([k \in 1..Len(sent) |-> PacketBytes(sent'[k])])
                      \o TailBytesAt(tail, Len(sent) + 1,
                                     Stamp(Len(sent) + 1) + d * (Len(sent) + 1))
    /\ pc' = "start"
    /\ f_pos' = 0
    /\ sensor_files' = <<>>
    /\ packet_count' = 0
    /\ decode_idx' = 1
    /\ running' = {}
    /\ invoked' = <<>>
    /\ generated_csvs' = <<>>
    /\ failed_sensors' = <<>>
    /\ log' = {}
    /\ result' = Pending
    /\ opens' = <<>>
    /\ wrote' = {}
    /\ UNCHANGED <<impl, tail, decoder_exists, binFile, csvFile, fault, decoder_mode,
                   ext, threads>>

\* complete packets in the capture file of a run that is repeated
RerunPackets == MaxPackets - 1

InitRerun ==
    /\ Capture(RerunPackets)
    /\ FirstRun
    /\ Plain
    /\ Fresh
    /\ fault = NoFault

NextRerun ==
    Begin \/ DemuxStep \/ DemuxFinish \/ DecodeLaunch \/ DecodeWait \/ Aggregate
    \/ Rerun

\* two runs, one after the other
SpecRerun == InitRerun /\ [][NextRerun]_vars

\* ---------------------------------------------------- what the claims use
\* the payloads of the packets of s that carry handle h, in arrival order
RECURSIVE PayloadsOf(_, _)
PayloadsOf(s, h) ==
    IF s = <<>> THEN <<>>
    ELSE (IF Head(s).conn_handle = h THEN Head(s).payload ELSE <<>>)
         \o PayloadsOf(Tail(s), h)

SentHandles == {sent[k].conn_handle : k \in 1..Len(sent)}

\* the input ends mid-payload: a whole header, fewer payload bytes than announced
Truncated == tail.kind = "payload"

\* the demux loop ran and has ended
DemuxOver == pc \in {"closing", "decode", "wait", "done"} /\ <<"demuxing", 0>> \in log

\* the demux step has ended: the loop is over and the code after it has run
DemuxLeft == pc \in {"decode", "wait", "done"} /\ <<"demuxing", 0>> \in log

Range(q) == {q[k] : k \in 1..Len(q)}

\* the subprocess.run calls made for handle h
CallsFor(h) == {k \in 1..Len(invoked) : invoked[k].conn_handle = h}

\* h's decoder ran to exit code 0 within the timeout and left a non-empty artifact
DecodedWell(h) ==
    /\ \E k \in CallsFor(h) : invoked[k].status = "exit0"
    /\ h \in DOMAIN csvFile
    /\ csvFile[h] > 0

\* position of the first header of the capture file that carries h (the
\* header of a truncated packet included)
FirstHeader(h) ==
    IF h \in SentHandles
    THEN CHOOSE k \in 1..Len(sent) :
            /\ sent[k].conn_handle = h
            /\ \A j \in 1..(k - 1) : sent[j].conn_handle # h
    ELSE Len(sent) + 1

\* ------------------------------------------------------------------- C1
\* C1: once the demux loop has ended, the sink of every handle holds exactly
\* the payloads of the complete packets of that handle, concatenated in
\* arrival order (no header byte, no byte of another handle, no byte of a
\* truncated packet), and every handle with a complete packet has a sink.
C1_OrderPreserved ==
    DemuxOver =>
        /\ \A h \in DOMAIN binFile : binFile[h] = PayloadsOf(sent, h)
        /\ SentHandles \subseteq DOMAIN binFile

\* two packets of one handle and the truncated packet of another have been demultiplexed
C1_Witness ==
    /\ DemuxOver
    /\ Len(sent) = 2
    /\ sent[1].conn_handle = sent[2].conn_handle
    /\ Len(sent[1].payload) = 2
    /\ Len(sent[2].payload) = 1
    /\ Truncated /\ tail.avail = 1 /\ tail.conn_handle # sent[1].conn_handle
    /\ Len(binFile[sent[1].conn_handle]) = 3

\* ------------------------------------------------------------------- C2
\* C2 as claimed: when the input ends mid-payload, the demux step (of every
\* revision) ends with a truncation error that names the offset reached.
C2_TruncationErrorEverywhere ==
    (Truncated /\ DemuxOver) =>
        /\ result.kind = "raised"
        /\ result.msg = "truncated"
        /\ result.offset = Len(input)

\* C2 amended: when the input ends mid-payload the demux loop halts at the end
\* of the file; train.py raises RuntimeError naming that offset, while main.py
\* and test_pipeline.py only log a warning: no error, no offset.
C2_TruncationByRevision ==
    (Truncated /\ DemuxOver) =>
        /\ f_pos = Len(input)
        /\ <<"truncated", tail.conn_handle>> \in log
        /\ impl = "train" =>
              /\ pc = "done"
              /\ result = Raised("RuntimeError", "truncated", Len(input), <<>>)
        /\ impl # "train" =>
              /\ result.msg # "truncated"
              /\ result.offset = -1
              /\ pc = "closing" => result = Pending

\* train.py has raised on a payload of which one byte of two was there
C2_Witness ==
    /\ impl = "train"
    /\ Truncated /\ tail.avail = 1
    /\ Len(sent) = 2
    /\ result.msg = "truncated"

\* ------------------------------------------------------------------- C3
\* C3 as claimed: when the input ends mid-payload the sinks are closed with the
\* complete payloads and the job goes on to decode them (in every revision).
C3_PartialSuccessEverywhere ==
    (Truncated /\ DemuxLeft) =>
        /\ \A k \in 1..Len(sensor_files) :
              /\ ~sensor_files[k].open
              /\ binFile[sensor_files[k].conn_handle]
                     = PayloadsOf(sent, sensor_files[k].conn_handle)
        /\ result.msg # "truncated"

\* C3 amended: when the input ends mid-payload every sink opened so far is
\* closed holding the payloads of the complete packets. main.py and
\* test_pipeline.py go on as a partial success: the decode loop starts on those
\* sinks. train.py raises RuntimeError instead: the sinks stay on disk, none is
\* handed to the decoder and no artifact is produced.
C3_PartialSuccessByRevision ==
    (Truncated /\ DemuxLeft) =>
        /\ \A k \in 1..Len(sensor_files) :
              /\ ~sensor_files[k].open
              /\ binFile[sensor_files[k].conn_handle]
                     = PayloadsOf(sent, sensor_files[k].conn_handle)
        /\ impl = "train" =>
              /\ pc = "done"
              /\ result.kind = "raised" /\ result.msg = "truncated"
              /\ invoked = <<>>
              /\ generated_csvs = <<>>
        /\ impl # "train" =>
              /\ result.msg # "truncated"
              /\ (pc = "done" /\ decoder_exists /\ sensor_files # <<>>) =>
                     /\ invoked # <<>>
                     /\ invoked[1].conn_handle = sensor_files[1].conn_handle

\* main.py has returned an artifact decoded from a sink of a truncated file
C3_Witness ==
    /\ impl = "main"
    /\ Truncated
    /\ Len(sent) = 2
    /\ pc = "done"
    /\ result.kind = "returned"
    /\ Len(result.value) = 2

\* ------------------------------------------------------------------- C4
\* the handles of the sensors decoded well, in the order of the decode loop
RECURSIVE WellDecoded(_)
WellDecoded(sf) ==
    IF sf = <<>> THEN <<>>
    ELSE (IF DecodedWell(Head(sf).conn_handle)
          THEN <<CsvPath(Head(sf).conn_handle)>> ELSE <<>>)
         \o WellDecoded(Tail(sf))

\* no subprocess.run call failed to start its process (C7 is about those)
NoLaunchError == \A k \in 1..Len(invoked) : invoked[k].status # "oserror"

\* C4 as claimed: main.py and train.py are both lenient: the job succeeds if
\* and only if at least one sensor decoded well, and then returns exactly the
\* artifacts of those sensors.
C4_LenientEverywhere ==
    (pc = "done" /\ impl \in {"main", "train"} /\ NoLaunchError) =>
        /\ result.kind = "returned" <=> WellDecoded(sensor_files) # <<>>
        /\ result.kind = "returned" => result.value = WellDecoded(sensor_files)

\* C4 amended: in main.py and train.py a job that returns a list returns a
\* non-empty list holding exactly the artifacts of the sensors that decoded
\* well, and the failure for an empty list (main.py "No CSVs generated",
\* train.py "All sensors failed") is raised only when no sensor decoded well.
\* The converse is the lenient policy and holds in neither file as it stands:
\* train.py also fails the job when some but not all sensors failed, and
\* main.py fails it when an OSError of subprocess.run leaves the loop.
C4_ReturnedAreTheDecoded ==
    (pc = "done" /\ impl \in {"main", "train"}) =>
        /\ result.kind = "returned" =>
              /\ result.value # <<>>
              /\ result.value = WellDecoded(sensor_files)
        /\ result.msg \in {"no_csvs", "all_failed"} => WellDecoded(sensor_files) = <<>>
        /\ (result.kind = "raised" /\ WellDecoded(sensor_files) # <<>>) =>
              IF impl = "train" THEN result.msg = "some_failed" /\ result.failed # <<>>
              ELSE result.error = "OSError"

\* main.py has returned the one artifact of two sensors, the other having failed
C4_Witness ==
    /\ impl = "main"
    /\ pc = "done"
    /\ Len(sensor_files) = 2
    /\ Len(invoked) = 2
    /\ invoked[1].status = "nonzero"
    /\ result.kind = "returned"
    /\ result.value = <<CsvPath(sensor_files[2].conn_handle)>>

\* ------------------------------------------------------------------- C5
HandleOf(path) == path[2]

\* C5 as claimed: the returned list is in ascending order of connHandle.
C5_AscendingHandles ==
    (pc = "done" /\ result.kind = "returned") =>
        \A i, j \in 1..Len(result.value) :
            i < j => HandleOf(result.value[i]) < HandleOf(result.value[j])

\* C5 amended: the returned list is in the order in which the handles first
\* appear in the stream (the insertion order of sensor_files), whatever their
\* numeric order.
C5_FirstAppearanceOrder ==
    (pc = "done" /\ result.kind = "returned") =>
        \A i, j \in 1..Len(result.value) :
            i < j => FirstHeader(HandleOf(result.value[i]))
                         < FirstHeader(HandleOf(result.value[j]))

\* a list of two artifacts was returned for a stream whose larger handle came first
C5_Witness ==
    /\ pc = "done"
    /\ impl \in {"main", "train"}
    /\ result.kind = "returned"
    /\ Len(result.value) = 2
    /\ HandleOf(result.value[1]) > HandleOf(result.value[2])

\* ------------------------------------------------------------------- C6
\* C6 as claimed: with the decoder missing the job (main.py, train.py) ends with
\* the decoder-missing error and no decoder invocation, whatever was demultiplexed.
C6_DecoderMissingAlways ==
    (pc = "done" /\ ~decoder_exists /\ impl \in {"main", "train"}) =>
        /\ result.kind = "raised"
        /\ result.error = "FileNotFoundError"
        /\ invoked = <<>>

\* C6 amended: with the decoder missing no revision ever invokes the decoder.
\* main.py always ends with FileNotFoundError; train.py ends with it exactly
\* when its demux step returned (at least one sensor, no truncation), and with
\* the demux step's RuntimeError otherwise.
C6_DecoderMissingByRevision ==
    ~decoder_exists =>
        /\ invoked = <<>>
        /\ running = {}
        /\ (pc = "done" /\ impl = "main") =>
               result = Raised("FileNotFoundError", "decoder_missing", -1, <<>>)
        /\ (pc = "done" /\ impl = "train") =>
               IF Truncated THEN result.msg = "truncated"
               ELSE IF sensor_files = <<>> THEN result.msg = "no_sensors"
               ELSE result = Raised("FileNotFoundError", "decoder_missing", -1, <<>>)

\* train.py has ended on the missing decoder with two sensors demultiplexed
C6_Witness ==
    /\ impl = "train"
    /\ ~decoder_exists
    /\ pc = "done"
    /\ Len(sensor_files) = 2
    /\ result.error = "FileNotFoundError"

\* ------------------------------------------------------------------- C7
\* the decode loop was entered: the demux step returned and the decoder is there
DecodeEntered ==
    /\ decoder_exists
    /\ <<"demuxed", 0>> \in log

\* C7: with the decoder present, when the job has ended every demultiplexed
\* sensor has had exactly one decoder invocation, whatever the other
\* invocations did.
C7_EverySensorInvokedOnce ==
    (pc = "done" /\ DecodeEntered) =>
        \A k \in 1..Len(sensor_files) :
            Cardinality(CallsFor(sensor_files[k].conn_handle)) = 1

\* ------------------------------------------------------------------- C8
\* one of two sensors timed out and the other decoded well
OneTimeoutOneSuccess ==
    /\ pc = "done"
    /\ Len(sensor_files) = 2
    /\ Len(invoked) = 2
    /\ \E a, b \in 1..2 :
          /\ a # b
          /\ invoked[a].status = "timeout"
          /\ DecodedWell(invoked[b].conn_handle)

TimedOutHandle == invoked[CHOOSE k \in 1..2 : invoked[k].status = "timeout"].conn_handle

\* C8 as claimed: in that case the job's result holds exactly one artifact and
\* one failure entry, for the handle that timed out.
C8_FailureEntryInResult ==
    (OneTimeoutOneSuccess /\ impl \in {"main", "train"}) =>
        /\ Len(result.value) = 1
        /\ result.failed = <<TimedOutHandle>>

\* C8 amended: every failed invocation is logged with its tag when it ends, but
\* the tag is not part of the job's result. For one sensor timing out and the
\* other decoding well, main.py returns the list of the one artifact and no
\* failure entry; train.py raises RuntimeError naming the failed handle, without
\* a tag, and returns no artifact.
C8_FailureLoggedNotReturned ==
    /\ \A k \in 1..Len(invoked) :
          /\ invoked[k].status = "timeout" => <<"timeout", invoked[k].conn_handle>> \in log
          /\ invoked[k].status = "nonzero" => <<"nonzero_exit", invoked[k].conn_handle>> \in log
    /\ (OneTimeoutOneSuccess /\ impl = "main") =>
          /\ result.kind = "returned"
          /\ Len(result.value) = 1
          /\ result.failed = <<>>
    /\ (OneTimeoutOneSuccess /\ impl = "train") =>
          /\ result = Raised("RuntimeError", "some_failed", -1, <<TimedOutHandle>>)
          /\ failed_sensors = <<TimedOutHandle>>

\* train.py has ended a job in which the first sensor timed out and the second decoded well
C8_Witness ==
    /\ OneTimeoutOneSuccess
    /\ impl = "train"
    /\ invoked[1].status = "timeout"
    /\ invoked[1].conn_handle \in DOMAIN csvFile
    /\ csvFile[invoked[1].conn_handle] = 0

\* ------------------------------------------------------------------- C9
\* C9: at every moment a sensor's artifact path is in the list of successful
\* artifacts if and only if its decoder invocation ended within the timeout
\* with exit code 0 and the artifact file exists with a size above 0.
C9_ListedIffDecodedWell ==
    \A h \in Handles : CsvPath(h) \in Range(generated_csvs) <=> DecodedWell(h)

\* one decoder left a non-empty file but exited non-zero, one exited 0 with an
\* empty file, and neither artifact is listed
C9_Witness ==
    /\ pc = "done"
    /\ Len(invoked) = 2
    /\ invoked[1].status = "nonzero"
    /\ invoked[1].conn_handle \in DOMAIN csvFile
    /\ csvFile[invoked[1].conn_handle] > 0
    /\ invoked[2].status = "exit0"
    /\ invoked[2].conn_handle \in DOMAIN csvFile
    /\ csvFile[invoked[2].conn_handle] = 0
    /\ generated_csvs = <<>>

\* ------------------------------------------------------------------ C10
\* C10: no decoder invocation of main.py or train.py lasts longer than 60
\* seconds; an invocation that timed out has its process ended, its sensor is
\* not among the successes and its timeout is logged, without ending the job;
\* and no decoder process is alive once the job has ended.
C10_TimeoutBounded ==
    /\ \A k \in 1..Len(invoked) :
          /\ impl \in {"main", "train"} => invoked[k].elapsed <= 60
          /\ invoked[k].status = "timeout" =>
                /\ invoked[k].conn_handle \notin running
                /\ CsvPath(invoked[k].conn_handle) \notin Range(generated_csvs)
                /\ <<"timeout", invoked[k].conn_handle>> \in log
                /\ pc = "done" => result.error \in {"", "RuntimeError", "OSError"}
    /\ pc = "done" => running = {}
    /\ Cardinality(running) <= 1

\* both decoder invocations of a main.py job timed out and the job has ended
C10_Witness ==
    /\ impl = "main"
    /\ pc = "done"
    /\ Len(invoked) = 2
    /\ invoked[1].status = "timeout" /\ invoked[1].elapsed = 60
    /\ invoked[2].status = "timeout"
    /\ running = {}

\* ------------------------------------------------------------------ C11
\* the loop was left by the break of the short header read
CleanEnd == ~Truncated /\ DemuxOver

C12_NoShortPacket ==
    \E k \in 0..Len(sent) :
        \A h \in DOMAIN binFile : binFile[h] = PayloadsOf(SubSeq(sent, 1, k), h)

\* the payload of a handle that already has a sink was read one byte short,
\* and the loop has ended on it
C12_Witness ==
    /\ Truncated
    /\ tail.avail = 1
    /\ DemuxOver
    /\ Len(sent) = 2
    /\ tail.conn_handle = sent[1].conn_handle
    /\ Len(sent[1].payload) = 2
    /\ tail.conn_handle \in DOMAIN binFile
    /\ f_pos = Len(input)

\* ------------------------------------------------------------------ C13
\* the file operations that may fail: the open of the sink of one handle, the
\* write that would let that sink grow beyond room bytes, or the read of the
\* capture file that starts at offset room
Faults ==
    {[op |-> "open", conn_handle |-> h, room |-> 0] : h \in Handles}
    \cup {[op |-> "write", conn_handle |-> h, room |-> r] :
             h \in Handles, r \in 0..MaxPayload}
    \cup {[op |-> "read", conn_handle |-> 0, room |-> r] : r \in {0, HEADER_SIZE}}

\* the run meets the fault: the handle has a complete packet, and its
\* payloads do not fit in the room; or the file is read at that offset
Bites(ft) ==
    IF ft.op = "read" THEN ft.room <= Len(input)
    ELSE /\ ft.conn_handle \in SentHandles
         /\ ft.op = "write" => Len(PayloadsOf(sent, ft.conn_handle)) > ft.room

InitIO ==
    /\ Capture(MaxPackets)
    /\ FirstRun
    /\ Plain
    /\ Fresh
    /\ fault \in {NoFault} \cup {ft \in Faults : Bites(ft)}

\* one run on a file system on which one file operation may fail
SpecIO == InitIO /\ [][Next]_vars

\* an open or a write of a sink has raised
SinkFailed == \E h \in Handles : <<"io_error", h>> \in log

\* C13 as claimed: after the open or the write of one handle's sink has
\* failed, the packets of the other handles are still routed to their sinks
\* and the other sensors are still decoded.
C13_FatalForThatSensorOnly ==
    (SinkFailed /\ ~Truncated /\ decoder_exists /\ pc = "done") =>
        \A h \in SentHandles \ {fault.conn_handle} :
            /\ h \in DOMAIN binFile
            /\ binFile[h] = PayloadsOf(sent, h)
            /\ CallsFor(h) # {}

\* C13 amended: a failure of the open or the write of any sink is fatal for
\* the whole run. The handler closes every sink and the run ends there:
\* main.py re-raises the OSError, train.py raises RuntimeError("Demuxing
\* error"), run_test prints it and returns nothing. No later packet of any
\* handle is routed (the sinks hold the payloads of the packets before the
\* failing one and nothing else) and no sensor is decoded.
C13_FatalForTheRun ==
    /\ SinkFailed =>
          /\ pc = "done"
          /\ \A k \in 1..Len(sensor_files) : ~sensor_files[k].open
          /\ result = IF impl = "main" THEN Raised("OSError", "sink_io", -1, <<>>)
                      ELSE IF impl = "train"
                           THEN Raised("RuntimeError", "sink_io", -1, <<>>)
                           ELSE Returned(<<>>, "demux_error")
          /\ invoked = <<>>
          /\ generated_csvs = <<>>
          /\ \E k \in 0..(Len(sent) - 1) :
                 \A h \in DOMAIN binFile :
                     binFile[h] = PayloadsOf(SubSeq(sent, 1, k), h)
    /\ (fault.op \in {"open", "write"} /\ DemuxOver) => SinkFailed

\* the write of the first packet failed; the second packet, of another
\* handle, was never routed
C13_Witness ==
    /\ SinkFailed
    /\ fault.op = "write"
    /\ pc = "done"
    /\ decoder_exists
    /\ Len(sent) = 2
    /\ fault.conn_handle = sent[1].conn_handle
    /\ sent[2].conn_handle # sent[1].conn_handle
    /\ Len(sent[2].payload) = 2
    /\ sent[2].conn_handle \notin DOMAIN binFile

\* ------------------------------------------------------------------ C14
\* the file holds no header at all: it is empty or shorter than a header
ZeroPackets == sent = <<>> /\ tail.kind \in {"none", "header"}

\* every demultiplexed sensor was decoded and none produced an artifact
AllSensorsFailed ==
    /\ sensor_files # <<>>
    /\ Len(invoked) = Len(sensor_files)
    /\ NoLaunchError
    /\ generated_csvs = <<>>

\* C14 as claimed: with the decoder installed, a file without any packet ends
\* main.py's and train.py's run with the error "no sensors detected", before
\* any decoder is started.
C14_NoSensorsDetectedEverywhere ==
    (ZeroPackets /\ impl \in {"main", "train"} /\ decoder_exists /\ pc = "done") =>
        /\ result.kind = "raised"
        /\ result.msg = "no_sensors"
        /\ invoked = <<>>

\* C14 amended: no decoder is started for a file without any packet, and
\* only train.py reports it as such: demux_binary_file raises
\* RuntimeError("No sensors detected in binary file"), with or without a
\* decoder, an error no other path raises. main.py has no such test: it
\* raises FileNotFoundError when the decoder is missing, and otherwise
\* RuntimeError("No CSVs generated successfully"), the very error it raises
\* when every sensor failed to decode; test_pipeline.py ends with "no valid
\* CSV" likewise.
C14_NoSensorsByRevision ==
    /\ (ZeroPackets /\ pc = "done") =>
          /\ invoked = <<>>
          /\ result =
               IF impl = "train" THEN Raised("RuntimeError", "no_sensors", -1, <<>>)
               ELSE IF impl = "main"
                    THEN IF decoder_exists
                         THEN Raised("RuntimeError", "no_csvs", -1, <<>>)
                         ELSE Raised("FileNotFoundError", "decoder_missing", -1, <<>>)
                    ELSE IF decoder_exists THEN Returned(<<>>, "test_failed")
                         ELSE Returned(<<>>, "decoder_missing")
    /\ result.msg = "no_sensors" =>
          /\ impl = "train"
          /\ sensor_files = <<>>
          /\ \A h \in Handles : <<"detected", h>> \notin log
    /\ (AllSensorsFailed /\ pc = "done") =>
          result = IF impl = "main" THEN Raised("RuntimeError", "no_csvs", -1, <<>>)
                   ELSE IF impl = "train"
                        THEN Raised("RuntimeError", "all_failed", -1, failed_sensors)
                        ELSE Returned(<<>>, "test_failed")

\* train.py has ended on a file of seven bytes, with no decoder installed
C14_Witness ==
    /\ ZeroPackets
    /\ tail.avail = HEADER_SIZE - 1
    /\ impl = "train"
    /\ ~decoder_exists
    /\ pc = "done"
    /\ result.msg = "no_sensors"

\* ------------------------------------------------------------------ C15
\* the scenario of the specification: handles 1 and 2 interleaved, three
\* packets each, of 4 and of 2 payload bytes
ScenarioHandles == <<1, 2, 1, 2, 1, 2>>
ScenarioSizes == <<4, 2, 4, 2, 4, 2>>

ScenarioCapture ==
    /\ impl \in Impls
    /\ sent = MkSent(ScenarioHandles, ScenarioSizes)
    /\ tail \in {t \in Tails : t.kind = "none"}
    /\ input = FileBytes(sent, tail)
    /\ decoder_exists \in BOOLEAN

InitCounts ==
    /\ Capture(MaxPackets) \/ ScenarioCapture
    /\ FirstRun
    /\ Plain
    /\ Fresh
    /\ fault = NoFault

\* one run on any capture file of the bounds, or on the scenario's
SpecCounts == InitCounts /\ [][Next]_vars

IsScenario == Len(sent) = Len(ScenarioHandles)

\* the data_size field of p's header, as the demultiplexer unpacks it
SizeField(p) == Unpack(Pack(p.conn_handle, p.timestamp_ms, Len(p.payload))).data_size

RECURSIVE SumSizes(_, _)
SumSizes(s, h) ==
    IF s = <<>> THEN 0
    ELSE (IF Head(s).conn_handle = h THEN SizeField(Head(s)) ELSE 0)
         + SumSizes(Tail(s), h)

RECURSIVE SumCounts(_)
SumCounts(sf) == IF sf = <<>> THEN 0 ELSE Head(sf).packet_count + SumCounts(Tail(sf))

PacketsOf(s, h) == Cardinality({k \in 1..Len(s) : s[k].conn_handle = h})

\* C15: the global packet counter of train.py and test_pipeline.py always
\* equals the sum of the per-sensor counters; once the loop has ended on an
\* input not truncated mid-payload, it equals the number of headers of the
\* file, every per-sensor counter is the number of packets of its handle, and
\* every sink has as many bytes as the data_size fields of its handle's
\* headers add up to. In the scenario 1,2,1,2,1,2 with sizes 4 and 2 the two
\* sinks hold 12 and 6 bytes, each in the order of arrival.
C15_CountsAgree ==
    /\ impl # "main" => SumCounts(sensor_files) = packet_count
    /\ (~Truncated /\ DemuxOver) =>
          /\ impl # "main" =>
                /\ packet_count = Len(sent)
                /\ \A k \in 1..Len(sensor_files) :
                       sensor_files[k].packet_count =
                           PacketsOf(sent, sensor_files[k].conn_handle)
          /\ DOMAIN binFile = SentHandles
          /\ \A h \in DOMAIN binFile : Len(binFile[h]) = SumSizes(sent, h)
          /\ IsScenario =>
                /\ DOMAIN binFile = {1, 2}
                /\ Len(binFile[1]) = 12
                /\ Len(binFile[2]) = 6
                /\ binFile[1] = PayloadsOf(sent, 1)
                /\ binFile[2] = PayloadsOf(sent, 2)

\* train.py has demultiplexed the six packets of the scenario
C15_Witness ==
    /\ IsScenario
    /\ impl = "train"
    /\ DemuxOver
    /\ packet_count = 6
    /\ Len(sensor_files) = 2
    /\ sensor_files[1].packet_count = 3
    /\ Len(binFile[1]) = 12

\* ------------------------------------------------------------------ C16
AllClosed == \A k \in 1..Len(sensor_files) : ~sensor_files[k].open

\* h has a sink in the dict and it is closed
ClosedSink(h) ==
    \E k \in 1..Len(sensor_files) :
        sensor_files[k].conn_handle = h /\ ~sensor_files[k].open

\* the decode loop has run to its end
DecodeLoopDone ==
    pc = "done" /\ <<"demuxed", 0>> \in log /\ decode_idx > Len(sensor_files)

\* C16 as claimed, for runs in which starting a decoder never raised: when
\* the run has ended, every sink has been the input of exactly one decoder
\* invocation.
C16_EverySinkHandedOffOnce ==
    (pc = "done" /\ NoLaunchError) =>
        \A k \in 1..Len(sensor_files) :
            Cardinality(CallsFor(sensor_files[k].conn_handle)) = 1

\* what holds in every state: decoders exist only when all sinks are closed,
\* the k-th invocation has the k-th sink as its input, no sink is the input
\* of two invocations, and after a complete decode loop of exactly one
OwnershipInv ==
    /\ (invoked # <<>> \/ running # {}) => AllClosed
    /\ \A h \in running : ClosedSink(h)
    /\ Len(invoked) <= Len(sensor_files)
    /\ \A k \in 1..Len(invoked) :
           /\ invoked[k].conn_handle = sensor_files[k].conn_handle
           /\ invoked[k].argv[2] = BinPath(sensor_files[k].conn_handle)
           /\ invoked[k].conn_handle \in DOMAIN binFile
    /\ \A h \in DOMAIN binFile : Cardinality(CallsFor(h)) <= 1
    /\ DecodeLoopDone =>
           \A k \in 1..Len(sensor_files) :
               Cardinality(CallsFor(sensor_files[k].conn_handle)) = 1

\* no step changes a sink that is closed
NoWriteAfterClose ==
    \A h \in DOMAIN binFile :
        ClosedSink(h) => (h \in DOMAIN binFile' /\ binFile'[h] = binFile[h])

\* C16 amended: every sink is closed before the first decoder invocation
\* starts and no byte is written to a sink after it has been closed; no sink
\* is decoded while it is open for writing; each sink is the input of at most
\* one decoder invocation, and of exactly one only when the decode loop runs
\* to its end (not when the decoder is missing, nor when train.py's
\* demultiplexer raises, nor when main.py's loop is left by an exception).
C16_OwnershipHandOff == []OwnershipInv /\ [][NoWriteAfterClose]_vars

\* two sinks, both closed, the second one being decoded after the first
C16_Witness ==
    /\ Len(sensor_files) = 2
    /\ AllClosed
    /\ Len(invoked) = 2
    /\ invoked[1].status = "exit0"
    /\ running = {sensor_files[2].conn_handle}
    /\ Len(binFile[sensor_files[2].conn_handle]) = 2

\* ------------------------------------------------------------------ C17
\* the open(bin_path, 'wb') calls made for h in this run
OpensOf(h) == {k \in 1..Len(opens) : opens[k].conn_handle = h}

\* the entries of the dict for h
EntriesOf(h) == {k \in 1..Len(sensor_files) : sensor_files[k].conn_handle = h}

\* offset in the file of the first header that carries h
FirstHeaderOffset(h) ==
    Len(Concat([k \in 1..(FirstHeader(h) - 1) |-> PacketBytes(sent[k])]))

\* C17: in every state the dict has at most one entry, hence at most one open
\* sink, per conn_handle, and exactly one entry for each handle whose sink was
\* opened; the sink file of a handle is opened (and truncated) at most once in
\* a run, while the loop is at the first packet header that carries the
\* handle, and the files on disk are those that were opened.
C17_OneStreamPerHandle ==
    /\ \A h \in Handles :
          /\ Cardinality(EntriesOf(h)) <= 1
          /\ Cardinality(OpensOf(h)) <= 1
          /\ Cardinality(OpensOf(h)) = Cardinality(EntriesOf(h))
    /\ Len(opens) = Len(sensor_files)
    /\ \A k \in 1..Len(opens) :
          /\ opens[k].conn_handle = sensor_files[k].conn_handle
          /\ opens[k].at = FirstHeaderOffset(opens[k].conn_handle)
    /\ DOMAIN binFile = {opens[k].conn_handle : k \in 1..Len(opens)}

\* three headers of one handle have been read (the last one of a truncated
\* packet) and its sink was opened once
C17_Witness ==
    /\ Len(sent) = 2
    /\ sent[1].conn_handle = sent[2].conn_handle
    /\ Truncated
    /\ tail.conn_handle = sent[1].conn_handle
    /\ DemuxOver
    /\ Len(opens) = 1
    /\ opens[1].conn_handle = sent[1].conn_handle
    /\ Len(binFile[sent[1].conn_handle]) = 4

\* ------------------------------------------------------------------ C18
\* the file of the second run is the file of the first run
SameInput ==
    input = FileBytes([k \in 1..Len(sent) |->
                          [sent[k] EXCEPT !.timestamp_ms = Stamp(k)]], tail)

\* C18: when the pipeline has demultiplexed the same file a second time in
\* the same directory, the sink files are byte for byte those the first run
\* left: the same paths (a path is made of the file's name and the handle
\* only) with the same contents, nothing of the first run kept or appended
\* to; and the dict has the same handles in the same order.
C18_RerunSameSinks ==
    (run = 2 /\ SameInput /\ DemuxOver) =>
        /\ binFile = prev_bin
        /\ {BinPath(h) : h \in DOMAIN binFile} = {BinPath(h) : h \in DOMAIN prev_bin}
        /\ \A h \in DOMAIN binFile : binFile[h] = PayloadsOf(sent, h)
        /\ HandlesOf(sensor_files) = prev_sensors

\* the second run has demultiplexed the same file again: a packet of two
\* bytes, and the truncated packet of another handle
C18_Witness ==
    /\ run = 2
    /\ SameInput
    /\ DemuxOver
    /\ Len(sent) = 1
    /\ Len(sent[1].payload) = 2
    /\ Truncated
    /\ tail.conn_handle # sent[1].conn_handle
    /\ prev_bin[sent[1].conn_handle] = sent[1].payload
    /\ binFile[sent[1].conn_handle] = sent[1].payload

\* ------------------------------------------------------------------ C19
\* the decode of h was attempted and did not produce an artifact
DecodeFailed(h) ==
    \E k \in CallsFor(h) :
        /\ invoked[k].status # "running"
        /\ ~DecodedWell(h)

\* C19: train.py's process_binary_to_csv raises as soon as one sensor failed
\* to decode ("all sensors failed" when none succeeded, else "sensors ...
\* failed", naming the failed handles); it returns a list only when every
\* demultiplexed sensor was decoded well, and the list is then one artifact
\* per sensor, in the order of the dict.
C19_StrictPolicy ==
    (impl = "train" /\ pc = "done") =>
        /\ (\E h \in Handles : DecodeFailed(h)) =>
              /\ result.kind = "raised"
              /\ result.msg = IF generated_csvs = <<>> THEN "all_failed"
                              ELSE "some_failed"
              /\ result.failed = failed_sensors
              /\ \A h \in Handles :
                     DecodeFailed(h) <=> h \in Range(failed_sensors)
        /\ result.kind = "returned" =>
              /\ sensor_files # <<>>
              /\ \A k \in 1..Len(sensor_files) :
                     DecodedWell(sensor_files[k].conn_handle)
              /\ result.value =
                     [k \in 1..Len(sensor_files) |-> CsvPath(sensor_files[k].conn_handle)]
        /\ (sensor_files # <<>> /\
            \A k \in 1..Len(sensor_files) : DecodedWell(sensor_files[k].conn_handle))
              => result.kind = "returned"

\* train.py has ended after the first of two sensors decoded well and the
\* second one exited with a non-zero code
C19_Witness ==
    /\ impl = "train"
    /\ pc = "done"
    /\ Len(sensor_files) = 2
    /\ Len(invoked) = 2
    /\ invoked[1].status = "exit0"
    /\ invoked[2].status = "nonzero"
    /\ Len(generated_csvs) = 1
    /\ result.kind = "raised"
    /\ failed_sensors = <<sensor_files[2].conn_handle>>

\* ------------------------------------------------------------------ C20
\* the second file has other timestamps than the first
OtherStamps == run = 2 /\ ~SameInput

\* the artifacts of the sensors of handles hs that were decoded well
RECURSIVE ArtifactsOf(_)
ArtifactsOf(hs) ==
    IF hs = <<>> THEN <<>>
    ELSE (IF DecodedWell(Head(hs)) THEN <<CsvPath(Head(hs))>> ELSE <<>>)
         \o ArtifactsOf(Tail(hs))

\* C20: a second file that differs from the first in the timestamp_ms fields
\* only is demultiplexed into the same sinks with the same contents, and into
\* a dict of the same handles in the same order; its k-th decoder invocation
\* has the arguments of the first file's k-th sink, and the list the run
\* returns holds the artifacts of the first file's sinks that the decoder
\* served, in that order: nothing depends on a timestamp.
C20_TimestampsIgnored ==
    (run = 2 /\ DemuxOver) =>
        /\ binFile = prev_bin
        /\ HandlesOf(sensor_files) = prev_sensors
        /\ Len(invoked) <= Len(prev_sensors)
        /\ \A k \in 1..Len(invoked) : invoked[k].argv = Argv(prev_sensors[k])
        /\ (pc = "done" /\ result.kind = "returned") =>
              result.value = ArtifactsOf(prev_sensors)

\* the second run, on a file with other timestamps, has returned the
\* artifact of its one sensor
C20_Witness ==
    /\ OtherStamps
    /\ pc = "done"
    /\ Len(sent) = 1
    /\ sent[1].timestamp_ms # Stamp(1)
    /\ Len(sent[1].payload) = 2
    /\ tail.kind = "header"
    /\ result.kind = "returned"
    /\ Len(result.value) = 1

\* ------------------------------------------------------------------ C21
\* the paths the run may name: the sinks and the artifacts of all handles
SinkPaths == {BinPath(h) : h \in Handles}
ArtifactPaths == {CsvPath(h) : h \in Handles}

\* every invocation made so far has the decoder and two arguments, the sink
\* and the artifact of its own handle, and no path belongs to two handles
OwnPathsInv ==
    /\ \A k \in 1..Len(invoked) :
          /\ Len(invoked[k].argv) = 3
          /\ invoked[k].argv[2] = BinPath(invoked[k].conn_handle)
          /\ invoked[k].argv[3] = CsvPath(invoked[k].conn_handle)
          /\ \A j \in 1..Len(invoked) :
                j # k => /\ invoked[j].argv[2] # invoked[k].argv[2]
                         /\ invoked[j].argv[3] # invoked[k].argv[3]
    /\ \A g, h \in Handles :
          g # h => /\ BinPath(g) # BinPath(h)
                   /\ CsvPath(g) # CsvPath(h)
    /\ SinkPaths \cap ArtifactPaths = {}

\* a step in which a decoder ends changes no sink, and no artifact but the
\* one of the handle it was started for
OwnFilesOnly ==
    pc = "wait" =>
        /\ binFile' = binFile
        /\ \A h \in DOMAIN csvFile :
              h # invoked[Len(invoked)].conn_handle =>
                  (h \in DOMAIN csvFile' /\ csvFile'[h] = csvFile[h])
        /\ DOMAIN csvFile' \subseteq DOMAIN csvFile \cup {invoked[Len(invoked)].conn_handle}

\* C21: every decoder invocation gets exactly two positional arguments, the
\* sink path and the artifact path of its own handle; two handles never share
\* a sink path or an artifact path, and a decoder neither changes a sink nor
\* writes the artifact of another handle.
C21_OwnPathsOnly == []OwnPathsInv /\ [][OwnFilesOnly]_vars

\* the second of two decoders is running, and the first one has left its artifact
C21_Witness ==
    /\ Len(invoked) = 2
    /\ pc = "wait"
    /\ invoked[1].conn_handle # invoked[2].conn_handle
    /\ invoked[1].conn_handle \in DOMAIN csvFile
    /\ invoked[2].conn_handle \notin DOMAIN csvFile
    /\ invoked[2].argv = <<"decoder", BinPath(invoked[2].conn_handle),
                           CsvPath(invoked[2].conn_handle)>>

\* ------------------------------------------------------------------ C22
\* C22 as claimed: every sink given to a decoder is the sink of a handle
\* with at least one complete packet; the sink of a handle whose only header
\* is followed by a truncated payload is never decoded.
C22_NoEmptySinkDecoded ==
    \A k \in 1..Len(invoked) :
        /\ invoked[k].conn_handle \in SentHandles
        /\ invoked[k].conn_handle \in DOMAIN binFile
        /\ binFile[invoked[k].conn_handle] = PayloadsOf(sent, invoked[k].conn_handle)

\* ------------------------------------------------------------------ C23
\* C23 as claimed: an artifact in the list of successes was written by the
\* decoder invocation of this run; an artifact left by an earlier run is not
\* reported when this run's decoder exits 0 without writing its output.
C23_ArtifactOfThisRun ==
    \A h \in Handles : CsvPath(h) \in Range(generated_csvs) => h \in wrote

\* ------------------------------------------------------------------ C24
\* Two upload_and_analyze requests handled at the same time by the threaded
\* server, with the same session_name and file name: both threads run
\* main.py's process_binary_to_csv on the same file_path, in the same
\* directory. Each thread has its own locals; the files are shared.
Requests == {1, 2}

NewThread == [pc |-> "start", f_pos |-> 0, sensor_files |-> <<>>, offs |-> <<>>,
              decode_idx |-> 1, child |-> 0, generated_csvs |-> <<>>,
              result |-> Pending]

\* file.write(payload) of a file object whose position is off: the bytes
\* land at off, after a gap of zeros when the file has become shorter
WriteAt(f, h, off, payload) ==
    LET old == f[h]
        padded == IF Len(old) < off
                  THEN old \o [j \in 1..(off - Len(old)) |-> 0] ELSE old
    IN Store(f, h, SubSeq(padded, 1, off) \o payload
                   \o SubSeq(padded, off + Len(payload) + 1, Len(padded)))

InitConc ==
    /\ Capture(RerunPackets)
    /\ impl = "main"
    /\ FirstRun
    /\ decoder_mode = "executable"
    /\ ext = "bin"
    /\ threads = [t \in Requests |-> NewThread]
    /\ Fresh
    /\ fault = NoFault

\* what a step of a thread leaves alone: the file, and the single run's locals
ConcFrame ==
    UNCHANGED <<impl, sent, tail, input, decoder_exists, pc, f_pos, sensor_files,
                packet_count, decode_idx, running, invoked, generated_csvs,
                failed_sensors, log, result, fault, opens, run, prev_bin,
                prev_sensors, wrote, decoder_mode, ext>>

\* logging.info("Demuxing: ..."), open(file_path, 'rb')
ConcBegin ==
    \E t \in DOMAIN threads :
        /\ threads[t].pc = "start"
        /\ threads' = [threads EXCEPT ![t].pc = "demux"]
        /\ UNCHANGED <<binFile, csvFile>>
        /\ ConcFrame

\* one iteration of the while True loop of a thread
ConcDemux ==
    \E t \in DOMAIN threads :
        LET th == threads[t]
            header_bytes == Read(input, th.f_pos, HEADER_SIZE)
            pos1 == th.f_pos + Len(header_bytes)
        IN
        /\ th.pc = "demux"
        /\ ConcFrame
        /\ UNCHANGED csvFile
        /\ IF Len(header_bytes) < HEADER_SIZE
           THEN /\ threads' = [threads EXCEPT ![t].f_pos = pos1, ![t].pc = "closing"]
                /\ UNCHANGED binFile
           ELSE
           LET hd == Unpack(header_bytes)
               conn_handle == hd.conn_handle
               new == ~InSensorFiles(th.sensor_files, conn_handle)
               sf1 == OpenSink(th.sensor_files, conn_handle)
               bf1 == OpenFile(th.sensor_files, binFile, conn_handle)
               offs1 == IF new THEN Store(th.offs, conn_handle, 0) ELSE th.offs
               payload == Read(input, pos1, hd.data_size)
               pos2 == pos1 + Len(payload)
           IN
           IF IsShort(payload, hd.data_size)
           THEN /\ threads' = [threads EXCEPT ![t].f_pos = pos2,
                                              ![t].sensor_files = sf1,
                                              ![t].offs = offs1,
                                              ![t].pc = "closing"]
                /\ binFile' = bf1
           ELSE /\ threads' = [threads EXCEPT
                                  ![t].f_pos = pos2,
                                  ![t].sensor_files = sf1,
                                  ![t].offs = Store(offs1, conn_handle,
                                                    offs1[conn_handle] + Len(payload))]
                /\ binFile' = WriteAt(bf1, conn_handle, offs1[conn_handle], payload)

\* the sinks of the thread are closed, and the decoder is looked for
ConcClose ==
    \E t \in DOMAIN threads :
        /\ threads[t].pc = "closing"
        /\ threads' = [threads EXCEPT
              ![t].sensor_files = CloseAll(@),
              ![t].pc = IF CheckDecoder THEN "decode" ELSE "done",
              ![t].result = IF CheckDecoder THEN @
                            ELSE Raised("FileNotFoundError", "decoder_missing", -1, <<>>)]
        /\ UNCHANGED <<binFile, csvFile>>
        /\ ConcFrame

\* subprocess.run of a thread, first half
ConcLaunch ==
    \E t \in DOMAIN threads :
        LET th == threads[t] IN
        /\ th.pc = "decode"
        /\ th.decode_idx <= Len(th.sensor_files)
        /\ \E started \in BOOLEAN :
              threads' = [threads EXCEPT
                  ![t].child = IF started THEN th.sensor_files[th.decode_idx].conn_handle
                               ELSE 0,
                  ![t].pc = IF started THEN "wait" ELSE "done",
                  ![t].result = IF started THEN @
                                ELSE Raised("OSError", "launch", -1, <<>>)]
        /\ UNCHANGED <<binFile, csvFile>>
        /\ ConcFrame

\* subprocess.run of a thread, second half, and the rest of the loop body
ConcWait ==
    \E t \in DOMAIN threads :
        LET th == threads[t]
            h == th.child
        IN
        /\ th.pc = "wait"
        /\ \E d \in Durations, rc \in ExitCodes, eff \in Effects :
              LET csv1 == WriteCsv(csvFile, h, eff)
                  ok == ~TimedOut("main", d) /\ DecodeOk(rc, csv1, h)
              IN
              /\ csvFile' = csv1
              /\ threads' = [threads EXCEPT
                    ![t].child = 0,
                    ![t].decode_idx = @ + 1,
                    ![t].generated_csvs = IF ok THEN Append(@, CsvPath(h)) ELSE @,
                    ![t].pc = "decode"]
        /\ UNCHANGED binFile
        /\ ConcFrame

\* the thread returns its list or raises
ConcAggregate ==
    \E t \in DOMAIN threads :
        LET th == threads[t] IN
        /\ th.pc = "decode"
        /\ th.decode_idx > Len(th.sensor_files)
        /\ threads' = [threads EXCEPT
              ![t].pc = "done",
              ![t].result = Outcome("main", th.generated_csvs, <<>>)]
        /\ UNCHANGED <<binFile, csvFile>>
        /\ ConcFrame

NextConc ==
    ConcBegin \/ ConcDemux \/ ConcClose \/ ConcLaunch \/ ConcWait \/ ConcAggregate

\* two requests for the same session and file, handled by two threads
SpecConc == InitConc /\ [][NextConc]_vars

\* thread t has the sink of h open for writing
HasOpen(t, h) ==
    \E k \in 1..Len(threads[t].sensor_files) :
        /\ threads[t].sensor_files[k].conn_handle = h
        /\ threads[t].sensor_files[k].open

\* C24 as claimed: two concurrent runs never have the same sink file open for
\* writing at the same time, and neither run's decoder reads a sink that the
\* other run still has open for writing.
C24_NoSharedSink ==
    \A t, u \in DOMAIN threads : \A h \in Handles :
        t # u =>
            /\ ~(HasOpen(t, h) /\ HasOpen(u, h))
            /\ ~(threads[t].child = h /\ HasOpen(u, h))

\* ------------------------------------------------------------------ C25
\* how the demux step was left
DemuxExit ==
    IF \E e \in log : e[1] \in {"io_error", "read_error"} THEN "exception"
    ELSE IF \E e \in log : e[1] = "truncated" THEN "truncation"
    ELSE "end_of_stream"

\* C25: once the demux step has been left, by the end of the stream, by a
\* truncated payload, or by an exception of a read of the source or of the
\* open or the write of a sink, every sink that was opened is in the dict and
\* is closed; and no sink is opened or reopened afterwards.
C25_ClosedOnEveryExit ==
    DemuxLeft =>
        /\ AllClosed
        /\ {opens[k].conn_handle : k \in 1..Len(opens)}
              = {sensor_files[k].conn_handle : k \in 1..Len(sensor_files)}
        /\ DemuxExit = "exception" =>
              /\ pc = "done"
              /\ result.msg \in {"sink_io", "read_io", "demux_error"}

\* the second sink could not be written: the handler has closed both
C25_Witness ==
    /\ DemuxLeft
    /\ DemuxExit = "exception"
    /\ fault.op = "write"
    /\ Len(sensor_files) = 2
    /\ AllClosed
    /\ Len(binFile[sensor_files[1].conn_handle]) = 2
    /\ binFile[sensor_files[2].conn_handle] = <<>>

\* ------------------------------------------------------------------ C26
\* the steps the job can still take at most: the bytes not yet read, and two
\* steps (launch, wait) for every sink not yet decoded
Rank ==
    LET most == Len(input) \div HEADER_SIZE
        left == Len(sensor_files) - decode_idx + 1
    IN
    IF pc = "start" THEN Len(input) + 2 * most + 4
    ELSE IF pc = "demux" THEN (Len(input) - f_pos) + 2 * most + 3
    ELSE IF pc = "closing" THEN 2 * most + 2
    ELSE IF pc = "decode" THEN 2 * left + 1
    ELSE IF pc = "wait" THEN 2 * left
    ELSE 0

BoundedInv ==
    /\ Rank \in Nat
    /\ f_pos <= Len(input)
    \* at most floor(fileSize / 8) packets, hence at most as many sinks
    /\ HEADER_SIZE * packet_count <= f_pos
    /\ Len(sensor_files) <= f_pos \div HEADER_SIZE
    \* at most one invocation per detected handle, each ended by its timeout
    /\ Len(invoked) <= Len(sensor_files)
    /\ \A j, k \in 1..Len(invoked) :
           invoked[j].conn_handle = invoked[k].conn_handle => j = k
    /\ \A k \in 1..Len(invoked) :
           /\ InSensorFiles(sensor_files, invoked[k].conn_handle)
           /\ invoked[k].elapsed <= Timeout(impl)
    /\ pc = "done" => running = {} /\ result # Pending

BoundedStep ==
    /\ Rank' < Rank
    \* an iteration that does not leave the loop has read a whole header
    /\ (pc = "demux" /\ pc' = "demux") => f_pos' >= f_pos + HEADER_SIZE
    /\ Len(invoked') <= Len(invoked) + 1

\* C26: every step of the job brings it nearer to its end: an iteration of
\* the demux loop leaves the loop or consumes at least the 8 bytes of a header,
\* so that at most floor(fileSize / 8) packets are routed; the decode phase
\* starts at most one decoder per detected handle, and each is over after at
\* most the timeout; and the job does return or raise.
C26_Terminates == []BoundedInv /\ [][BoundedStep]_vars /\ <>(pc = "done")

\* a job over: a whole packet and a truncated one read, two decoders run, one
\* of them killed by the timeout
C26_Witness ==
    /\ pc = "done"
    /\ f_pos = Len(input)
    /\ Len(sent) = MaxPackets - 1
    /\ Truncated
    /\ Len(invoked) = 2
    /\ invoked[1].elapsed = Timeout(impl)
    /\ invoked[2].status = "exit0"
    /\ running = {}

\* ------------------------------------------------------------------ C27
\* C27: in train.py, an exception that leaves the decode loop comes from
\* decode_sensor_binary only as the FileNotFoundError of the existence test,
\* raised before any decoder was started; every other failure of an
\* invocation is turned into a False return, so that the only other way the
\* job raises is the RuntimeError after the loop.
C27_OnlyFileNotFound ==
    (impl = "train" /\ pc = "done" /\ result.kind = "raised"
       /\ <<"demuxed", 0>> \in log) =>
        \/ result.error = "RuntimeError" /\ result.msg \in {"all_failed", "some_failed"}
        \/ result.error = "FileNotFoundError" /\ ~decoder_exists /\ invoked = <<>>

\* ------------------------------------------------------------------ C28
\* the decoder is there and was not executable when the job began
NotExecutable == decoder_exists /\ decoder_mode \in {"fixable", "locked", "made_executable"}

\* C28: a decoder that exists and is not executable is not reported as
\* missing: it is made executable, and the job goes on to its decode
\* invocations as with an executable decoder, so that no job ends on the
\* permission bits and every decoder started is executable.
C28_MadeExecutable ==
    NotExecutable =>
        /\ result.msg # "decoder_missing"
        /\ <<"decoder_missing", 0>> \notin log
        /\ result.error # "PermissionError"
        /\ (pc = "wait" \/ invoked # <<>>) => Access(decoder_mode)

\* ------------------------------------------------------------------ C29
\* C29: handed a path that does not end in .bin, whatever its case,
\* process_binary_to_csv reads nothing, creates or truncates no sink, writes
\* no artifact and starts no decoder; main.py returns the path itself as the
\* only artifact, train.py does so for a .csv path and raises ValueError for
\* any other.
C29_OtherNamesUntouched ==
    (impl \in {"main", "train"} /\ Lower(ext) # "bin") =>
        /\ pc \in {"start", "done"}
        /\ f_pos = 0
        /\ sensor_files = <<>> /\ opens = <<>> /\ binFile = <<>>
        /\ invoked = <<>> /\ running = {} /\ csvFile = <<>> /\ wrote = {}
        /\ generated_csvs = <<>>
        /\ decoder_mode \in {"executable", "fixable", "locked"}
        /\ pc = "done" =>
              IF impl = "main" \/ Lower(ext) = "csv"
              THEN result = Returned(<<FilePath(ext)>>, "passthrough")
              ELSE result.kind = "raised" /\ result.error = "ValueError"

\* main.py has handed back the path of a .CSV file that holds a packet
C29_Witness ==
    /\ impl = "main"
    /\ ext = "CSV"
    /\ pc = "done"
    /\ result.kind = "returned"
    /\ result.value = <<FilePath("CSV")>>
    /\ Len(sent) = 1
    /\ decoder_exists
    /\ binFile = <<>>

\* ------------------------------------------------------------------ C30
\* the complete packets of a byte string, read off the bytes alone: a header
\* of 8 bytes '<HIH', then data_size bytes; the list ends where fewer bytes
\* than that are left
RECURSIVE PacketsIn(_)
PacketsIn(data) ==
    IF Len(data) < HEADER_SIZE THEN <<>>
    ELSE LET hdr == Unpack(SubSeq(data, 1, HEADER_SIZE))
             end == HEADER_SIZE + hdr.data_size
         IN IF Len(data) < end THEN <<>>
            ELSE <<[conn_handle |-> hdr.conn_handle,
                    payload |-> SubSeq(data, HEADER_SIZE + 1, end)]>>
                 \o PacketsIn(SubSeq(data, end + 1, Len(data)))

\* the handles of a packet list, each once, in the order of first appearance
RECURSIVE FirstAppearance(_, _)
FirstAppearance(ps, seen) ==
    IF ps = <<>> THEN <<>>
    ELSE IF Head(ps).conn_handle \in seen THEN FirstAppearance(Tail(ps), seen)
    ELSE <<Head(ps).conn_handle>>
         \o FirstAppearance(Tail(ps), seen \cup {Head(ps).conn_handle})

\* C30: on an input that does not end mid-payload, what the demux step leaves
\* is a function of the bytes of the file alone, the same for main.py,
\* train.py and test_pipeline.py: the handles of the dict, in its order, are
\* the handles of the packets in the order of their first appearance, one
\* sink each, and each sink holds the payloads of its handle, concatenated.
C30_SameDemux ==
    (~Truncated /\ DemuxOver) =>
        LET ps == PacketsIn(input) IN
        /\ HandlesOf(sensor_files) = FirstAppearance(ps, {})
        /\ DOMAIN binFile = {ps[k].conn_handle : k \in 1..Len(ps)}
        /\ \A h \in DOMAIN binFile : binFile[h] = PayloadsOf(ps, h)

\* two packets of two handles, with payloads, and a few bytes of a third header
C30_Witness ==
    /\ ~Truncated /\ DemuxOver
    /\ tail.kind = "header"
    /\ Len(sensor_files) = 2
    /\ sensor_files[1].conn_handle = 258
    /\ 1 \in DOMAIN binFile /\ 258 \in DOMAIN binFile
    /\ Len(binFile[1]) = 2 /\ Len(binFile[258]) = 1

====
